---- MODULE Spec2Model ----
(***************************************************************************)
(* Model of the Excel -> DSpace Simple Archive Format packager             *)
(* (saf_converter.py) and of its package validator (validate_saf.py).      *)
(*                                                                         *)
(* Python strings are sequences of one-character strings, so that          *)
(* strip(), lower(), split(), the regular expressions and Path.suffix are  *)
(* computed the way the code computes them.                                *)
(***************************************************************************)
EXTENDS Integers, Sequences, FiniteSets, TLC

(***************************************************************************)
(* Characters and strings                                                  *)
(***************************************************************************)

\* The ASCII characters the model uses, in code point order.
AsciiOrder ==
  << "\t", "\n", " ", "(", ")", ",", "-", ".", "/",
     "0", "1", "2", "3", "4", "5", "6", "7", "8", "9", ":", ";",
     "A", "B", "C", "D", "E", "F", "G", "H", "I", "J", "K", "L", "M",
     "N", "O", "P", "Q", "R", "S", "T", "U", "V", "W", "X", "Y", "Z", "_",
     "a", "b", "c", "d", "e", "f", "g", "h", "i", "j", "k", "l", "m",
     "n", "o", "p", "q", "r", "s", "t", "u", "v", "w", "x", "y", "z", "|" >>

\* ord(c), up to the order it induces
OrdTable ==
  [ c \in { AsciiOrder[i] : i \in 1..Len(AsciiOrder) } |->
      CHOOSE i \in 1..Len(AsciiOrder) : AsciiOrder[i] = c ]

Ord(c) == OrdTable[c]

UpperCase == << "A", "B", "C", "D", "E", "F", "G", "H", "I", "J", "K", "L", "M",
                "N", "O", "P", "Q", "R", "S", "T", "U", "V", "W", "X", "Y", "Z" >>

LowerCase == << "a", "b", "c", "d", "e", "f", "g", "h", "i", "j", "k", "l", "m",
                "n", "o", "p", "q", "r", "s", "t", "u", "v", "w", "x", "y", "z" >>

Digits == { "0", "1", "2", "3", "4", "5", "6", "7", "8", "9" }

Whitespace == { " ", "\t", "\n" }

\* str.lower() on one character
LowerTable ==
  [ c \in { AsciiOrder[i] : i \in 1..Len(AsciiOrder) } |->
      IF \E i \in 1..26 : UpperCase[i] = c
      THEN LowerCase[CHOOSE i \in 1..26 : UpperCase[i] = c]
      ELSE c ]

LowerChar(c) == LowerTable[c]

\* str.lower()
Lower(s) == [i \in 1..Len(s) |-> LowerChar(s[i])]

\* str.strip()
RECURSIVE LStrip(_)
LStrip(s) == IF s # << >> /\ s[1] \in Whitespace THEN LStrip(Tail(s)) ELSE s

RECURSIVE RStrip(_)
RStrip(s) ==
  IF s # << >> /\ s[Len(s)] \in Whitespace THEN RStrip(SubSeq(s, 1, Len(s) - 1)) ELSE s

Strip(s) == RStrip(LStrip(s))

\* str.startswith()
StartsWith(s, p) == Len(p) <= Len(s) /\ SubSeq(s, 1, Len(p)) = p

\* the `in` operator on strings
Contains(s, sub) ==
  \E i \in 0..(Len(s) - Len(sub)) : SubSeq(s, i + 1, i + Len(sub)) = sub

\* str.rfind(c): 1-based position of the last c, 0 when there is none
RECURSIVE RFind(_, _)
RFind(s, c) ==
  IF s = << >> THEN 0
  ELSE IF s[Len(s)] = c THEN Len(s)
  ELSE RFind(SubSeq(s, 1, Len(s) - 1), c)

\* str.find(c): 1-based position of the first c, 0 when there is none
RECURSIVE FindFrom(_, _, _)
FindFrom(s, c, i) ==
  IF i > Len(s) THEN 0 ELSE IF s[i] = c THEN i ELSE FindFrom(s, c, i + 1)

Find(s, c) == FindFrom(s, c, 1)

\* Python's < on strings: lexicographic by code point
RECURSIVE StrLess(_, _)
StrLess(a, b) ==
  IF b = << >> THEN FALSE
  ELSE IF a = << >> THEN TRUE
  ELSE IF a[1] # b[1] THEN Ord(a[1]) < Ord(b[1])
  ELSE StrLess(Tail(a), Tail(b))

\* sorted(): a stable insertion sort under StrLess
RECURSIVE Insert(_, _)
Insert(x, s) ==
  IF s = << >> THEN << x >>
  ELSE IF StrLess(x, s[1]) THEN << x >> \o s
  ELSE << s[1] >> \o Insert(x, Tail(s))

RECURSIVE Sorted(_)
Sorted(s) == IF s = << >> THEN << >> ELSE Insert(s[Len(s)], Sorted(SubSeq(s, 1, Len(s) - 1)))

Range(s) == { s[i] : i \in 1..Len(s) }

\* the float NaN pandas puts in an empty cell (a value that is no string)
NaN == << "<NaN>" >>

\* the Python value None
None == << "<None>" >>

s_nan == << "n", "a", "n" >>
s_none == << "n", "o", "n", "e" >>
s_filename == << "f", "i", "l", "e", "n", "a", "m", "e" >>
s_file == << "f", "i", "l", "e" >>
s_bitstream == << "b", "i", "t", "s", "t", "r", "e", "a", "m" >>
s_dc_dot == << "d", "c", "." >>

(***************************************************************************)
(* saf_converter.py: helpers                                               *)
(***************************************************************************)

is_blank(v) ==
  \/ v = None
  \/ v = NaN
  \/ Lower(Strip(v)) \in { << >>, s_nan, s_none }

norm_header(h) == Strip(h)

\* re.sub(r"[\s_\-\.]+", "", str(h).strip().lower())
norm_key_for_match(h) ==
  SelectSeq(Lower(Strip(h)), LAMBDA c : c \notin (Whitespace \cup { "_", "-", "." }))

(***************************************************************************)
(* find_header_row                                                         *)
(***************************************************************************)

MAX_HEADER_SCAN == 25

\* the non-blank cells of a row, stripped
RowCells(row) == [ i \in 1..Len(SelectSeq(row, LAMBDA x : ~is_blank(x))) |->
                     Strip(SelectSeq(row, LAMBDA x : ~is_blank(x))[i]) ]

has_filename(row) ==
  \E i \in 1..Len(RowCells(row)) : Contains(norm_key_for_match(RowCells(row)[i]), s_filename)

dc_count(row) ==
  Cardinality({ i \in 1..Len(RowCells(row)) : StartsWith(Lower(RowCells(row)[i]), s_dc_dot) })

RowQualifies(row) == has_filename(row) /\ dc_count(row) >= 2

\* variant: the running maximum is replaced on ties too
RECURSIVE ScanRowsLastMax(_, _, _, _)
ScanRowsLastMax(probe, i, best_idx, best_dc_count) ==
  IF i >= Len(probe)
  THEN IF best_dc_count > 0 /\ best_idx # -1 THEN best_idx ELSE 0
  ELSE IF RowQualifies(probe[i + 1]) THEN i
  ELSE IF dc_count(probe[i + 1]) >= best_dc_count
       THEN ScanRowsLastMax(probe, i + 1, i, dc_count(probe[i + 1]))
       ELSE ScanRowsLastMax(probe, i + 1, best_idx, best_dc_count)

\* the loop of find_header_row from 0-based row index i on; best_idx = -1 is None
RECURSIVE ScanRows(_, _, _, _)
ScanRows(probe, i, best_idx, best_dc_count) ==
  IF i >= Len(probe)
  THEN IF best_dc_count > 0 /\ best_idx # -1 THEN best_idx ELSE 0
  ELSE IF RowQualifies(probe[i + 1]) THEN i
  ELSE IF dc_count(probe[i + 1]) > best_dc_count
       THEN ScanRows(probe, i + 1, i, dc_count(probe[i + 1]))
       ELSE ScanRows(probe, i + 1, best_idx, best_dc_count)

\* pd.read_excel(..., header=None, nrows=max_scan): the first max_scan rows
ReadProbe(sheet, max_scan) ==
  SubSeq(sheet, 1, IF Len(sheet) < max_scan THEN Len(sheet) ELSE max_scan)

find_header_row(sheet, max_scan) == ScanRows(ReadProbe(sheet, max_scan), 0, -1, -1)

(***************************************************************************)
(* Column mapping                                                          *)
(***************************************************************************)

\* str.split(sep) for a one-character separator
RECURSIVE Split(_, _)
Split(s, sep) ==
  LET p == Find(s, sep)
  IN  IF p = 0 THEN << s >>
      ELSE << SubSeq(s, 1, p - 1) >> \o Split(SubSeq(s, p + 1, Len(s)), sep)

\* sep.join(parts)
RECURSIVE Join(_, _)
Join(parts, sep) ==
  IF parts = << >> THEN << >>
  ELSE IF Len(parts) = 1 THEN parts[1]
  ELSE parts[1] \o << sep >> \o Join(Tail(parts), sep)

detect_filename_columns(columns) ==
  SelectSeq(columns, LAMBDA c :
    c # None /\ ( \/ Contains(norm_key_for_match(c), s_filename)
                  \/ Contains(norm_key_for_match(c), s_file)
                  \/ Contains(norm_key_for_match(c), s_bitstream) ))

is_dc_column(col) == col # None /\ StartsWith(Lower(Strip(col)), s_dc_dot)

\* re.sub(r"\.(\d+)$", "", col)
base_header(col) ==
  IF col = None THEN << >>
  ELSE LET p == RFind(col, ".")
       IN  IF p > 0 /\ p < Len(col) /\ \A i \in (p + 1)..Len(col) : col[i] \in Digits
           THEN SubSeq(col, 1, p - 1)
           ELSE col

\* parse_dc(col) = << element, qualifier >>
parse_dc(col) ==
  IF col = None THEN << None, None >>
  ELSE LET c == Lower(Strip(col))
           parts == Split(c, ".")
       IN  IF ~StartsWith(c, s_dc_dot) THEN << None, None >>
           ELSE IF Len(parts) = 2 THEN << parts[2], None >>
           ELSE IF Len(parts) >= 3 THEN << parts[2], Join(SubSeq(parts, 3, Len(parts)), ".") >>
           ELSE << None, None >>

(***************************************************************************)
(* validate_required_fields                                                *)
(***************************************************************************)

s_title == << "t", "i", "t", "l", "e" >>
s_creator == << "c", "r", "e", "a", "t", "o", "r" >>
s_date_issued == << "d", "a", "t", "e", ".", "i", "s", "s", "u", "e", "d" >>

s_issued == << "i", "s", "s", "u", "e", "d" >>
s_date == << "d", "a", "t", "e" >>

REQUIRED_FIELDS == << s_title, s_creator, s_date_issued >>

\* variant: the qualifier of the specifier is not compared
ColumnSatisfiesAnyQualifier(element, col, val) ==
  /\ ~is_blank(val)
  /\ LET col_base == base_header(norm_header(col))
     IN  /\ is_dc_column(col_base)
         /\ parse_dc(col_base)[1] = Split(element, ".")[1]

\* the body of the inner loop for one (col, val): does it set found?
ColumnSatisfies(element, col, val) ==
  /\ ~is_blank(val)
  /\ LET col_base == base_header(norm_header(col))
         parsed == parse_dc(col_base)
     IN  /\ is_dc_column(col_base)
         /\ parsed[1] = Split(element, ".")[1]
         /\ IF Contains(element, << "." >>)
            THEN parsed[2] = Split(element, ".")[2]
            ELSE TRUE

\* the inner loop over zip(columns, row_values), from position i on
RECURSIVE FieldFound(_, _, _, _)
FieldFound(element, columns, row_values, i) ==
  IF i > Len(columns) \/ i > Len(row_values) THEN FALSE
  ELSE IF ColumnSatisfies(element, columns[i], row_values[i]) THEN TRUE
  ELSE FieldFound(element, columns, row_values, i + 1)

validate_required_fields(columns, row_values) ==
  SelectSeq(REQUIRED_FIELDS, LAMBDA element : ~FieldFound(element, columns, row_values, 1))

(***************************************************************************)
(* write_dc_xml                                                            *)
(***************************************************************************)

LANG_ATTR == << "e", "n" >>

\* `qualifier or "none"`: None and the empty string are both falsy
QualifierOrNone(qualifier) ==
  IF qualifier = None \/ qualifier = << >> THEN s_none ELSE qualifier

\* does the loop body reach the dedup test for this (raw_col, val)?
EmitsField(raw_col, val) ==
  /\ ~is_blank(val)
  /\ raw_col # None
  /\ LET base_col == base_header(norm_header(raw_col))
     IN  is_dc_column(base_col) /\ parse_dc(base_col)[1] # None
  /\ Strip(val) # << >>

\* trip = (element, qualifier or "none", text)
Triple(raw_col, val) ==
  LET parsed == parse_dc(base_header(norm_header(raw_col)))
  IN  << parsed[1], QualifierOrNone(parsed[2]), Strip(val) >>

\* a dcvalue node: << element, qualifier, language, text >>
DcValue(trip) == << trip[1], trip[2], LANG_ATTR, trip[3] >>

\* the triples of the (column, value) pairs that reach the dedup test, in column order
Triples(columns, row_values) ==
  LET n == IF Len(columns) < Len(row_values) THEN Len(columns) ELSE Len(row_values)
      at == SelectSeq([ i \in 1..n |-> i ],
                      LAMBDA i : EmitsField(columns[i], row_values[i]))
  IN  [ k \in 1..Len(at) |-> Triple(columns[at[k]], row_values[at[k]]) ]

\* variant: no triple is ever taken as seen
AlreadySeenNever(trip, seen) == FALSE

\* `if trip in seen: continue`

AlreadySeen(trip, seen) == trip \in seen

\* the dedup loop over the triples, from position i on
RECURSIVE DcNodes(_, _, _, _)
DcNodes(trips, i, seen, nodes) ==
  IF i > Len(trips) THEN nodes
  ELSE IF AlreadySeen(trips[i], seen) THEN DcNodes(trips, i + 1, seen, nodes)
  ELSE DcNodes(trips, i + 1, seen \cup { trips[i] }, Append(nodes, DcValue(trips[i])))

\* the children of the root element that write_dc_xml serialises
write_dc_xml(columns, row_values) == DcNodes(Triples(columns, row_values), 1, {}, << >>)

(***************************************************************************)
(* File tokens and find_files_for_item                                     *)
(***************************************************************************)

ALLOWED_FILE_EXTENSIONS ==
  << << ".", "c", "r", "2" >>,
     << ".", "c", "r", "3" >>,
     << ".", "p", "d", "f" >>,
     << ".", "d", "o", "c" >>,
     << ".", "d", "o", "c", "x" >>,
     << ".", "j", "p", "g" >>,
     << ".", "j", "p", "e", "g" >>,
     << ".", "p", "n", "g" >>,
     << ".", "g", "i", "f" >>,
     << ".", "t", "i", "f", "f" >>,
     << ".", "m", "p", "3" >>,
     << ".", "m", "p", "4" >>,
     << ".", "w", "a", "v" >>,
     << ".", "a", "v", "i" >>,
     << ".", "m", "o", "v" >>,
     << ".", "m", "p", "e", "g" >>,
     << ".", "m", "p", "g" >>,
     << ".", "t", "x", "t" >>,
     << ".", "r", "t", "f" >>,
     << ".", "x", "l", "s" >>,
     << ".", "x", "l", "s", "x" >>,
     << ".", "z", "i", "p" >>,
     << ".", "r", "a", "r" >>,
     << ".", "7", "z" >> >>

\* re.split(r"[;\n|,]+", s): cut at every run of separators
Separators == { ";", "\n", "|", "," }

RECURSIVE ReSplit(_, _, _)
ReSplit(s, i, cur) ==
  IF i > Len(s) THEN << cur >>
  ELSE IF s[i] \in Separators
       THEN IF i > 1 /\ s[i - 1] \in Separators
            THEN ReSplit(s, i + 1, cur)
            ELSE << cur >> \o ReSplit(s, i + 1, << >>)
       ELSE ReSplit(s, i + 1, Append(cur, s[i]))

\* os.path.basename(str(name).strip())
basename_only(name) ==
  SubSeq(Strip(name), RFind(Strip(name), "/") + 1, Len(Strip(name)))

\* the tokens one filename cell adds to the set `filenames`
CellTokens(raw) ==
  IF is_blank(raw) THEN {}
  ELSE { basename_only(Strip(p)) : p \in Range(ReSplit(raw, 1, << >>)) }
         \ { t \in { basename_only(Strip(p)) : p \in Range(ReSplit(raw, 1, << >>)) } :
               t = << >> \/ Lower(t) \in { << >>, s_none, s_nan } }

\* row.get(col, ""): the cell of the first column named col
RowGet(columns, row_values, col) ==
  IF \E i \in 1..Len(columns) : columns[i] = col
  THEN row_values[CHOOSE i \in 1..Len(columns) :
                    columns[i] = col /\ \A j \in 1..(i - 1) : columns[j] # col]
  ELSE << >>

\* the set `filenames` gathered from every filename-like column of a row
GatherFilenames(columns, row_values) ==
  UNION { CellTokens(RowGet(columns, row_values, c)) :
            c \in Range(detect_filename_columns(columns)) }

\* Path(fname).suffix
Suffix(fname) ==
  IF RFind(fname, ".") > 1 /\ RFind(fname, ".") < Len(fname)
  THEN SubSeq(fname, RFind(fname, "."), Len(fname))
  ELSE << >>

\* pattern.fullmatch(actual) for re.compile(re.escape(fname), re.IGNORECASE)
FullMatchIgnoreCase(fname, actual) == Lower(fname) = Lower(actual)

\* Strategy 2: the first entry of the directory listing that matches
CaseInsensitiveMatch(fname, listing) ==
  IF \E i \in 1..Len(listing) : FullMatchIgnoreCase(fname, listing[i])
  THEN << listing[CHOOSE i \in 1..Len(listing) :
                    /\ FullMatchIgnoreCase(fname, listing[i])
                    /\ \A j \in 1..(i - 1) : ~FullMatchIgnoreCase(fname, listing[j])] >>
  ELSE << >>

\* Strategy 3: the first allowed extension whose candidate exists
ExtensionProbe(fname, listing) ==
  IF Suffix(fname) = << >>
     /\ \E k \in 1..Len(ALLOWED_FILE_EXTENSIONS) :
          (fname \o ALLOWED_FILE_EXTENSIONS[k]) \in Range(listing)
  THEN << fname \o ALLOWED_FILE_EXTENSIONS[
            CHOOSE k \in 1..Len(ALLOWED_FILE_EXTENSIONS) :
              /\ (fname \o ALLOWED_FILE_EXTENSIONS[k]) \in Range(listing)
              /\ \A j \in 1..(k - 1) :
                   (fname \o ALLOWED_FILE_EXTENSIONS[j]) \notin Range(listing)] >>
  ELSE << >>

\* what one pass of the outer loop appends to found_files for the token fname:
\* Strategy 1 ends the pass (continue); Strategy 2 does not, Strategy 3 runs after it
FilesForToken(fname, listing) ==
  IF fname \in Range(listing) THEN << fname >>
  ELSE CaseInsensitiveMatch(fname, listing) \o ExtensionProbe(fname, listing)

\* find_files_for_item over the tokens in iteration order `tokens`
RECURSIVE find_files_for_item(_, _)
find_files_for_item(tokens, listing) ==
  IF tokens = << >> THEN << >>
  ELSE FilesForToken(tokens[1], listing) \o find_files_for_item(Tail(tokens), listing)

\* bitstreams_dir.iterdir() raises when the directory is absent; it is reached
\* by the first token, whose exact match cannot succeed there
find_files_raises(tokens, dir_exists) == ~dir_exists /\ tokens # << >>

\* the orders in which a Python set may be iterated
Orderings(S) ==
  { q \in [1..Cardinality(S) -> S] : \A i, j \in 1..Cardinality(S) : i # j => q[i] # q[j] }

(***************************************************************************)
(* The record pipeline: main() of saf_converter.py                         *)
(***************************************************************************)

VARIABLES
  pc,                   \* position of main(): "loop", the steps of the loop body, "except", "done"
  files_dir,            \* Config.FILES_DIR: [exists, listing], listing in iterdir() order
  xlsx_rows,            \* Config.INPUT_XLSX: the data rows the sheet is made of
  n_rows,               \* len(df): the number of data rows of the sheet
  df,                   \* the data rows df.iterrows() has yielded so far, in source order
  idx,                  \* their number; the current row is df[idx]
  total_records,
  total_files_copied,
  total_missing_files,
  error_count,
  out_dirs,             \* the package directories under Config.OUTPUT_DIR (named str(n))
  out_files,            \* the files under them: [pkg, name, kind, body]
  filenames,            \* locals of the loop body
  found_files,
  missing_files,
  copied,
  next_file,            \* position of `for fname in found_files`
  raised,               \* the step whose exception is on its way to the except clause
  faults,               \* number of I/O faults the environment has injected
  log,                  \* process log: [missing_fields, missing_files, copy_errors, errors]
  \* find_header_row
  sheet,                \* the raw rows of the spreadsheet
  max_scan,
  header_idx,           \* the value returned, -1 before the call
  \* validate_required_fields and write_dc_xml on one record
  columns,
  row_values,
  missing,              \* the value validate_required_fields returned
  dc_nodes,             \* the dcvalue nodes write_dc_xml wrote
  meta_pc,
  \* validate_saf.py
  saf_dirs,             \* the subdirectories of the directory given to the validator
  saf_files,            \* the files in them: [pkg, name, kind, body]
  v_next,               \* position of `for item_dir in sorted(item_dirs)`
  report,               \* list of (item_dir, issues)
  v_pc,                 \* "walk", "done", or "raised" once an exception has left main()
  \* filename_utils.clean_filename
  original,             \* the name given to clean_filename
  cleaned,              \* the cleaned name it returned
  clean_pc              \* "call" before the call, "returned" after it

s_dublin_core_xml == << "d", "u", "b", "l", "i", "n", "_", "c", "o", "r", "e", ".", "x", "m", "l" >>
s_contents == << "c", "o", "n", "t", "e", "n", "t", "s" >>

\* the cleaned column names of the DataFrame
DfColumns ==
  << << "d", "c", ".", "t", "i", "t", "l", "e" >>,
     << "d", "c", ".", "c", "r", "e", "a", "t", "o", "r" >>,
     << "d", "c", ".", "d", "a", "t", "e", ".", "i", "s", "s", "u", "e", "d" >>,
     << "F", "i", "l", "e", "n", "a", "m", "e" >> >>

\* the data rows a run may read
RowUniverse ==
  { << << "T", "1" >>, << "c", "r" >>, << "2", "0", "0", "1" >>, << "a" >> >>,
    << << "T", "2" >>, << "c", "r" >>, NaN, << "a", ";", "a", ".", "j", "p", "g" >> >>,
    << << "T", "3" >>, NaN, NaN, << "A", ".", "J", "P", "G", ",", " ", "z", "z", ".", "t", "x", "t" >> >>,
    << << "T", "4" >>, << "c", "r" >>, << "2", "0", "0", "1" >>, NaN >> }

\* the names a file of the bitstream directory may have
DiskNames == { << "A" >>, << "a", ".", "j", "p", "g" >> }

MaxRecords == 2

\* at most this many operating-system faults (mkdir, write, copy) in one run
MaxFaults == 1

\* the bitstream directory: absent, or present with some files in some listing order
FilesDirUniverse ==
  { [exists |-> FALSE, listing |-> << >>] } \cup
  { [exists |-> TRUE, listing |-> q] : q \in UNION { Orderings(S) : S \in SUBSET DiskNames } }

EmptyLog == [missing_fields |-> << >>, missing_files |-> {}, copy_errors |-> {}, errors |-> {}]

\* open(path, "w") / shutil.copy2 into a package: the file replaces one of the same name
PutFile(files, pkg, name, kind, body) ==
  { f \in files : ~(f.pkg = pkg /\ f.name = name) } \cup
  { [pkg |-> pkg, name |-> name, kind |-> kind, body |-> body] }

\* str(n) for 0 <= n < 100
str(n) ==
  LET digit == << "0", "1", "2", "3", "4", "5", "6", "7", "8", "9" >>
  IN  IF n < 10 THEN << digit[n + 1] >>
      ELSE << digit[(n \div 10) + 1], digit[(n % 10) + 1] >>

\* variant: the packages are numbered by the records that succeeded so far
item_dir_successes_only == str(total_records - error_count)

\* item_dir = Config.OUTPUT_DIR / str(total_records)
item_dir == str(total_records)

pvars == << pc, files_dir, xlsx_rows, n_rows, df, idx, total_records, total_files_copied, total_missing_files,
            error_count, out_dirs, out_files, filenames, found_files, missing_files, copied,
            next_file, raised, faults, log >>

hvars == << sheet, max_scan, header_idx >>

mvars == << columns, row_values, missing, dc_nodes, meta_pc >>

vvars == << saf_dirs, saf_files, v_next, report, v_pc >>

cvars == << original, cleaned, clean_pc >>

CleanIdle == original = << >> /\ cleaned = << >> /\ clean_pc = "idle"

ValidatorIdle ==
  saf_dirs = {} /\ saf_files = {} /\ v_next = 1 /\ report = << >> /\ v_pc = "idle"

HeaderIdle == sheet = << >> /\ max_scan = 0 /\ header_idx = -1

MetaIdle ==
  columns = << >> /\ row_values = << >> /\ missing = << >> /\ dc_nodes = << >> /\ meta_pc = "idle"

PipelineIdle ==
  /\ pc = "idle"
  /\ files_dir = [exists |-> FALSE, listing |-> << >>]
  /\ xlsx_rows = {}
  /\ n_rows = 0
  /\ df = << >>
  /\ idx = 0
  /\ total_records = 0
  /\ total_files_copied = 0
  /\ total_missing_files = 0
  /\ error_count = 0
  /\ out_dirs = {}
  /\ out_files = {}
  /\ filenames = {}
  /\ found_files = << >>
  /\ missing_files = {}
  /\ copied = << >>
  /\ next_file = 1
  /\ raised = "none"
  /\ faults = 0
  /\ log = EmptyLog

\* main() at the head of the loop, for a sheet made of the given rows and one of
\* the given bitstream directories
PipelineStart(rows, dirs) ==
  /\ pc = "loop"
  /\ files_dir \in dirs
  /\ xlsx_rows = rows
  /\ n_rows \in 0..MaxRecords
  /\ df = << >>
  /\ idx = 0
  /\ total_records = 0
  /\ total_files_copied = 0
  /\ total_missing_files = 0
  /\ error_count = 0
  /\ out_dirs = {}
  /\ out_files = {}
  /\ filenames = {}
  /\ found_files = << >>
  /\ missing_files = {}
  /\ copied = << >>
  /\ next_file = 1
  /\ raised = "none"
  /\ faults = 0
  /\ log = EmptyLog

PipelineInit == PipelineStart(RowUniverse, FilesDirUniverse)

\* for idx, row in df.iterrows(): total_records += 1
NextRecord ==
  /\ pc = "loop"
  /\ idx < n_rows
  /\ \E row \in xlsx_rows : df' = Append(df, row)
  /\ idx' = idx + 1
  /\ total_records' = total_records + 1
  /\ pc' = "validate"
  /\ filenames' = {}
  /\ found_files' = << >>
  /\ missing_files' = {}
  /\ copied' = << >>
  /\ next_file' = 1
  /\ log' = [log EXCEPT !.missing_fields = << >>, !.missing_files = {}, !.copy_errors = {}]
  /\ UNCHANGED << hvars, mvars, vvars, cvars >>
  /\ UNCHANGED << files_dir, xlsx_rows, n_rows, total_files_copied, total_missing_files, error_count,
                  out_dirs, out_files, raised, faults >>

\* missing_fields = validate_required_fields(...); a warning is logged, nothing else
ValidateFields ==
  /\ pc = "validate"
  /\ log' = [log EXCEPT !.missing_fields = validate_required_fields(DfColumns, df[idx])]
  /\ pc' = "mkdir"
  /\ UNCHANGED << hvars, mvars, vvars, cvars >>
  /\ UNCHANGED << faults, files_dir, xlsx_rows, n_rows, df, idx, total_records, total_files_copied, total_missing_files,
                  error_count, out_dirs, out_files, filenames, found_files, missing_files,
                  copied, next_file, raised >>

\* safe_mkdir(item_dir)
MakeDir ==
  /\ pc = "mkdir"
  /\ out_dirs' = out_dirs \cup { item_dir }
  /\ pc' = "xml"
  /\ UNCHANGED << hvars, mvars, vvars, cvars >>
  /\ UNCHANGED << faults, files_dir, xlsx_rows, n_rows, df, idx, total_records, total_files_copied, total_missing_files,
                  error_count, out_files, filenames, found_files, missing_files, copied,
                  next_file, raised, log >>

\* safe_mkdir raises (OSError)
MakeDirRaises ==
  /\ pc = "mkdir"
  /\ raised' = "mkdir"
  /\ pc' = "except"
  /\ faults < MaxFaults
  /\ faults' = faults + 1
  /\ UNCHANGED << hvars, mvars, vvars, cvars >>
  /\ UNCHANGED << files_dir, xlsx_rows, n_rows, df, idx, total_records, total_files_copied, total_missing_files,
                  error_count, out_dirs, out_files, filenames, found_files, missing_files,
                  copied, next_file, log >>

\* write_dc_xml(df.columns, row.values, item_dir / "dublin_core.xml")
WriteXml ==
  /\ pc = "xml"
  /\ out_files' = PutFile(out_files, item_dir, s_dublin_core_xml, "xml",
                          write_dc_xml(DfColumns, df[idx]))
  /\ pc' = "find"
  /\ UNCHANGED << hvars, mvars, vvars, cvars >>
  /\ UNCHANGED << faults, files_dir, xlsx_rows, n_rows, df, idx, total_records, total_files_copied, total_missing_files,
                  error_count, out_dirs, filenames, found_files, missing_files, copied,
                  next_file, raised, log >>

\* tree.write raises (OSError) before the document is on disk
WriteXmlRaises ==
  /\ pc = "xml"
  /\ raised' = "xml"
  /\ pc' = "except"
  /\ faults < MaxFaults
  /\ faults' = faults + 1
  /\ UNCHANGED << hvars, mvars, vvars, cvars >>
  /\ UNCHANGED << files_dir, xlsx_rows, n_rows, df, idx, total_records, total_files_copied, total_missing_files,
                  error_count, out_dirs, out_files, filenames, found_files, missing_files,
                  copied, next_file, log >>

\* missing_files = filenames - set(found_files)
MissingFiles(names, found) == names \ Range(found)

\* gather the tokens, find_files_for_item returns, missing_files is computed
FindFiles ==
  /\ pc = "find"
  /\ \E tokens \in Orderings(GatherFilenames(DfColumns, df[idx])) :
       /\ ~find_files_raises(tokens, files_dir.exists)
       /\ filenames' = Range(tokens)
       /\ found_files' = find_files_for_item(tokens, files_dir.listing)
       /\ missing_files' = MissingFiles(Range(tokens), find_files_for_item(tokens, files_dir.listing))
  /\ next_file' = 1
  /\ pc' = "copy"
  /\ UNCHANGED << hvars, mvars, vvars, cvars >>
  /\ UNCHANGED << faults, files_dir, xlsx_rows, n_rows, df, idx, total_records, total_files_copied, total_missing_files,
                  error_count, out_dirs, out_files, copied, raised, log >>

\* gather the tokens, find_files_for_item raises out of bitstreams_dir.iterdir()
FindFilesRaises ==
  /\ pc = "find"
  /\ \E tokens \in Orderings(GatherFilenames(DfColumns, df[idx])) :
       /\ find_files_raises(tokens, files_dir.exists)
       /\ filenames' = Range(tokens)
  /\ raised' = "iterdir"
  /\ pc' = "except"
  /\ UNCHANGED << hvars, mvars, vvars, cvars >>
  /\ UNCHANGED << faults, files_dir, xlsx_rows, n_rows, df, idx, total_records, total_files_copied, total_missing_files,
                  error_count, out_dirs, out_files, found_files, missing_files, copied,
                  next_file, log >>

\* one pass of `for fname in found_files` in which shutil.copy2 succeeds
CopyFile ==
  /\ pc = "copy"
  /\ next_file <= Len(found_files)
  /\ out_files' = PutFile(out_files, item_dir, found_files[next_file], "bitstream",
                          << << found_files[next_file] >> >>)
  /\ copied' = Append(copied, found_files[next_file])
  /\ total_files_copied' = total_files_copied + 1
  /\ next_file' = next_file + 1
  /\ UNCHANGED << hvars, mvars, vvars, cvars >>
  /\ UNCHANGED << faults, pc, files_dir, xlsx_rows, n_rows, df, idx, total_records, total_missing_files, error_count,
                  out_dirs, filenames, found_files, missing_files, raised, log >>

\* one pass in which shutil.copy2 raises: logged, the loop goes on
CopyFileRaises ==
  /\ pc = "copy"
  /\ next_file <= Len(found_files)
  /\ log' = [log EXCEPT !.copy_errors = @ \cup { found_files[next_file] }]
  /\ next_file' = next_file + 1
  /\ faults < MaxFaults
  /\ faults' = faults + 1
  /\ UNCHANGED << hvars, mvars, vvars, cvars >>
  /\ UNCHANGED << pc, files_dir, xlsx_rows, n_rows, df, idx, total_records, total_files_copied,
                  total_missing_files, error_count, out_dirs, out_files, filenames,
                  found_files, missing_files, copied, raised >>

\* for fname in missing_files: total_missing_files += 1; logging.warning(...)
LogMissingFiles ==
  /\ pc = "copy"
  /\ next_file > Len(found_files)
  /\ total_missing_files' = total_missing_files + Cardinality(missing_files)
  /\ log' = [log EXCEPT !.missing_files = missing_files]
  /\ pc' = "contents"
  /\ UNCHANGED << hvars, mvars, vvars, cvars >>
  /\ UNCHANGED << faults, files_dir, xlsx_rows, n_rows, df, idx, total_records, total_files_copied, error_count,
                  out_dirs, out_files, filenames, found_files, missing_files, copied,
                  next_file, raised >>

\* variant: the names are written in the order they were copied
ContentsLinesUnsorted(names) == [ i \in 1..Len(names) |-> << names[i] >> ]

\* the lines of the contents file: sorted(copied), one name per line
ContentsLines(names) == [ i \in 1..Len(names) |-> << Sorted(names)[i] >> ]

\* with open(item_dir / "contents", "w"): write the manifest; the record is complete
WriteContents ==
  /\ pc = "contents"
  /\ out_files' = PutFile(out_files, item_dir, s_contents, "contents", ContentsLines(copied))
  /\ pc' = "loop"
  /\ UNCHANGED << hvars, mvars, vvars, cvars >>
  /\ UNCHANGED << faults, files_dir, xlsx_rows, n_rows, df, idx, total_records, total_files_copied, total_missing_files,
                  error_count, out_dirs, filenames, found_files, missing_files, copied,
                  next_file, raised, log >>

\* open(item_dir / "contents", "w") raises (OSError)
WriteContentsRaises ==
  /\ pc = "contents"
  /\ raised' = "contents"
  /\ pc' = "except"
  /\ faults < MaxFaults
  /\ faults' = faults + 1
  /\ UNCHANGED << hvars, mvars, vvars, cvars >>
  /\ UNCHANGED << files_dir, xlsx_rows, n_rows, df, idx, total_records, total_files_copied, total_missing_files,
                  error_count, out_dirs, out_files, filenames, found_files, missing_files,
                  copied, next_file, log >>

\* variant: the exception ends the run
HandleExceptionStops ==
  /\ pc = "except"
  /\ log' = [log EXCEPT !.errors = @ \cup { << idx, raised >> }]
  /\ error_count' = error_count + 1
  /\ raised' = "none"
  /\ pc' = "done"
  /\ UNCHANGED << hvars, mvars, vvars, cvars >>
  /\ UNCHANGED << faults, files_dir, xlsx_rows, n_rows, df, idx, total_records, total_files_copied,
                  total_missing_files, out_dirs, out_files, filenames, found_files,
                  missing_files, copied, next_file >>

\* except Exception as e: log, error_count += 1, on to the next record
HandleException ==
  /\ pc = "except"
  /\ log' = [log EXCEPT !.errors = @ \cup { << idx, raised >> }]
  /\ error_count' = error_count + 1
  /\ raised' = "none"
  /\ pc' = "loop"
  /\ UNCHANGED << hvars, mvars, vvars, cvars >>
  /\ UNCHANGED << faults, files_dir, xlsx_rows, n_rows, df, idx, total_records, total_files_copied, total_missing_files,
                  out_dirs, out_files, filenames, found_files, missing_files, copied,
                  next_file >>

\* the loop is exhausted: the summary report
Summary ==
  /\ pc = "loop"
  /\ idx = n_rows
  /\ pc' = "done"
  /\ UNCHANGED << hvars, mvars, vvars, cvars >>
  /\ UNCHANGED << faults, files_dir, xlsx_rows, n_rows, df, idx, total_records, total_files_copied, total_missing_files,
                  error_count, out_dirs, out_files, filenames, found_files, missing_files,
                  copied, next_file, raised, log >>

PipelineNext ==
  \/ NextRecord
  \/ ValidateFields
  \/ MakeDir
  \/ MakeDirRaises
  \/ WriteXml
  \/ WriteXmlRaises
  \/ FindFiles
  \/ FindFilesRaises
  \/ CopyFile
  \/ CopyFileRaises
  \/ LogMissingFiles
  \/ WriteContents
  \/ WriteContentsRaises
  \/ HandleException
  \/ Summary

vars == << pvars, hvars, mvars, vvars, cvars >>

Init == PipelineInit /\ HeaderIdle /\ MetaIdle /\ ValidatorIdle /\ CleanIdle

Next == PipelineNext

Spec == Init /\ [][Next]_vars

(***************************************************************************)
(* Properties of the record pipeline                                       *)
(***************************************************************************)

HasFile(pkg, name) == \E f \in out_files : f.pkg = pkg /\ f.name = name

FileOf(pkg, name) == CHOOSE f \in out_files : f.pkg = pkg /\ f.name = name

\* the names on the lines of a contents file
ManifestNames(pkg) ==
  [ i \in 1..Len(FileOf(pkg, s_contents).body) |-> FileOf(pkg, s_contents).body[i][1] ]

\* the bitstreams that are in a package directory
BitstreamsIn(pkg) == { f.name : f \in { g \in out_files : g.pkg = pkg /\ g.kind = "bitstream" } }

\* record k (1-based) was logged as failed
Failed(k) == \E e \in log.errors : e[1] = k

\* the record-level error of record k, if any, came from an operating-system fault
OsFault(k) == \E e \in log.errors : e[1] = k /\ e[2] \in { "mkdir", "xml", "contents" }

\* the loop body of the current record has run to its end without a record-level error
RecordCompleted == pc \in { "loop", "done" } /\ idx >= 1 /\ ~Failed(idx)

\* the tokens of the current record that none of the three strategies resolves
Unresolved == { t \in filenames : FilesForToken(t, files_dir.listing) = << >> }

AscendingNames(m) == \A i, j \in 1..Len(m) : i < j => ~StrLess(m[j], m[i])

\* C1: in find_files_for_item every token contributes at most one filename to the
\* resolved list, also when a token without extension has both a case-insensitive
\* match and an extension-probe candidate.
C1_OneFilePerToken ==
  pc = "copy" =>
    /\ \A t \in filenames : Len(FilesForToken(t, files_dir.listing)) <= 1
    /\ Len(found_files) <= Cardinality(filenames)

\* C2: the tokens logged and counted as missing files are exactly the requested
\* tokens that no strategy resolved; a token resolved to a file of another name
\* (case, extension completion) is not reported missing.
C2_MissingAreTheUnresolved ==
  pc = "contents" =>
    /\ log.missing_files = Unresolved
    /\ missing_files = Unresolved

\* C3: for a record processed without a record-level error, the contents file of its
\* package lists exactly the filenames whose copy into the package succeeded, one per
\* line in ascending order; a resolved file whose copy raised is left out while the
\* other files are still copied; with nothing copied the manifest is empty.
C3_ManifestListsCopied ==
  RecordCompleted =>
    /\ HasFile(str(idx), s_contents)
    /\ FileOf(str(idx), s_contents).kind = "contents"
    /\ AscendingNames(ManifestNames(str(idx)))
    /\ Range(ManifestNames(str(idx))) = BitstreamsIn(str(idx))
    /\ Range(found_files) \subseteq (BitstreamsIn(str(idx)) \cup log.copy_errors)
    /\ (copied = << >> => FileOf(str(idx), s_contents).body = << >>)

\* C3 witness: a completed record with one copy that raised and two files listed
C3_Witness ==
  /\ RecordCompleted
  /\ log.copy_errors # {}
  /\ Cardinality(Range(ManifestNames(str(idx)))) = 2

\* C5: an exception raised at any step of a record is caught at the record boundary and
\* counted exactly once; the run goes on to every later record; what the failed record
\* had already written into its package directory stays in place (the file named
\* dublin_core.xml is the document written, or the bitstream of that name the copy
\* loop put in its place before the failure).
C5_RecordErrorsCaughtAndCounted ==
  /\ error_count = Cardinality(log.errors)
  /\ error_count = Cardinality({ e[1] : e \in log.errors })
  /\ \A e \in log.errors :
       /\ e[2] # "mkdir" => str(e[1]) \in out_dirs
       /\ e[2] \in { "iterdir", "contents" } =>
            /\ HasFile(str(e[1]), s_dublin_core_xml)
            /\ \/ FileOf(str(e[1]), s_dublin_core_xml).body = write_dc_xml(DfColumns, df[e[1]])
               \/ FileOf(str(e[1]), s_dublin_core_xml).kind = "bitstream"
  /\ pc \in { "loop", "done" } =>
       \A k \in 1..idx : Failed(k) \/ HasFile(str(k), s_contents)
  /\ pc = "done" => idx = n_rows

\* C5 witness: the first record failed while writing its manifest, its metadata
\* document is still there, and the second record was packaged
C5_Witness ==
  /\ pc = "done"
  /\ << 1, "contents" >> \in log.errors
  /\ HasFile(str(1), s_dublin_core_xml)
  /\ idx = 2
  /\ HasFile(str(2), s_contents)

\* C6: the k-th data row is written to the package directory named k, whether or not
\* an earlier record failed.
C6_SequentialPackageNumbers ==
  /\ total_records = idx
  /\ out_dirs \subseteq { str(k) : k \in 1..idx }
  /\ \A f \in out_files :
       f.kind = "xml" =>
         \E k \in 1..idx : f.pkg = str(k) /\ f.body = write_dc_xml(DfColumns, df[k])
  /\ pc \in { "loop", "done" } =>
       \A k \in 1..idx : ~Failed(k) => HasFile(str(k), s_dublin_core_xml)

\* C6 witness: the first record failed and the second one is in package 2
C6_Witness ==
  /\ pc = "done"
  /\ Failed(1)
  /\ ~Failed(2)
  /\ idx = 2
  /\ HasFile(str(2), s_dublin_core_xml)
  /\ df[1] # df[2]

\* C7: missing bitstreams never block package creation: with the bitstream directory
\* absent, or holding none of the requested files, every record (short of an operating
\* system fault) gets its metadata document and its manifest and is not counted as an
\* error, also when its filename column names a token.
C7_MissingBitstreamsNeverBlock ==
  pc \in { "loop", "done" } =>
    \A k \in 1..idx :
      ~OsFault(k) =>
        /\ HasFile(str(k), s_dublin_core_xml)
        /\ HasFile(str(k), s_contents)
        /\ ~Failed(k)

(***************************************************************************)
(* Header detection on its own: find_header_row on a raw sheet             *)
(***************************************************************************)

\* the raw rows a sheet may hold: free text, rows of dc.* cells, rows with a filename cell
HeaderRowUniverse ==
  { << << "F", "i", "l", "l", " ", "i", "n" >>, NaN, NaN >>,
    << << "d", "c", ".", "t", "i", "t", "l", "e" >>, << "n", "o", "t", "e", "s" >>, NaN >>,
    << << "d", "c", ".", "t", "i", "t", "l", "e" >>, << "D", "C", ".", "C", "r", "e", "a", "t", "o", "r" >>, NaN >>,
    << << "d", "c", ".", "t", "i", "t", "l", "e" >>, << "D", "C", ".", "C", "r", "e", "a", "t", "o", "r" >>, << " ", "d", "c", ".", "d", "a", "t", "e" >> >>,
    << << "F", "i", "l", "e", " ", "N", "a", "m", "e" >>, << "d", "c", ".", "t", "i", "t", "l", "e" >>, << "n", "a", "n" >> >>,
    << << "f", "i", "l", "e", "_", "n", "a", "m", "e" >>, << "d", "c", ".", "t", "i", "t", "l", "e" >>, << "D", "C", ".", "C", "r", "e", "a", "t", "o", "r" >> >> }

MaxSheetRows == 4

\* a scan limit below the sheet length, next to the configured one
SmallScan == 2

SeqsUpTo(S, n) == UNION { [1..k -> S] : k \in 0..n }

HeaderInit ==
  /\ sheet \in SeqsUpTo(HeaderRowUniverse, MaxSheetRows)
  /\ max_scan \in { SmallScan, MAX_HEADER_SCAN }
  /\ header_idx = -1

\* header_idx = find_header_row(Config.INPUT_XLSX, max_scan)
FindHeaderRow ==
  /\ header_idx = -1
  /\ header_idx' = find_header_row(sheet, max_scan)
  /\ UNCHANGED << sheet, max_scan >>
  /\ UNCHANGED << pvars, mvars, vvars, cvars >>

InitHeader == HeaderInit /\ PipelineIdle /\ MetaIdle /\ ValidatorIdle /\ CleanIdle

SpecHeader == InitHeader /\ [][FindHeaderRow]_vars

\* the rows find_header_row scans, and the 0-based indices of those that qualify
Scanned == ReadProbe(sheet, max_scan)

Qualifying ==
  { i \in 0..(Len(Scanned) - 1) : has_filename(Scanned[i + 1]) /\ dc_count(Scanned[i + 1]) >= 2 }

\* the 0-based indices of the scanned rows with the greatest dc-count
Greatest ==
  { i \in 0..(Len(Scanned) - 1) :
      \A j \in 0..(Len(Scanned) - 1) : dc_count(Scanned[j + 1]) <= dc_count(Scanned[i + 1]) }

Least(S) == CHOOSE i \in S : \A j \in S : i <= j

ColumnUniverse ==
  { << "D", "C", ".", "T", "i", "t", "l", "e" >>,
    << "d", "c", ".", "c", "r", "e", "a", "t", "o", "r" >>,
    << "d", "c", ".", "d", "a", "t", "e", ".", "i", "s", "s", "u", "e", "d" >>,
    << "d", "c", ".", "d", "a", "t", "e" >>,
    << "d", "c", ".", "s", "u", "b", "j", "e", "c", "t" >>,
    << "d", "c", ".", "s", "u", "b", "j", "e", "c", "t", ".", "2" >> }

\* cell values: two texts equal after trimming, another text, an empty cell
CellUniverse == { << "x" >>, << "x", " " >>, << "y" >>, NaN }

MaxColumns == 3

MetaInit ==
  /\ columns \in UNION { Orderings(S) : S \in { T \in SUBSET ColumnUniverse : Cardinality(T) <= MaxColumns } }
  /\ row_values \in [1..Len(columns) -> CellUniverse]
  /\ missing = << >>
  /\ dc_nodes = << >>
  /\ meta_pc = "validate"

\* missing_fields = validate_required_fields(df.columns, row.values)
CheckRequired ==
  /\ meta_pc = "validate"
  /\ missing' = validate_required_fields(columns, row_values)
  /\ meta_pc' = "xml"
  /\ UNCHANGED << columns, row_values, dc_nodes >>
  /\ UNCHANGED << pvars, hvars, vvars, cvars >>

\* write_dc_xml(df.columns, row.values, ...)
WriteDcXml ==
  /\ meta_pc = "xml"
  /\ dc_nodes' = write_dc_xml(columns, row_values)
  /\ meta_pc' = "done"
  /\ UNCHANGED << columns, row_values, missing >>
  /\ UNCHANGED << pvars, hvars, vvars, cvars >>

MetaNext == CheckRequired \/ WriteDcXml

InitMeta == MetaInit /\ PipelineIdle /\ HeaderIdle /\ ValidatorIdle /\ CleanIdle

SpecMeta == InitMeta /\ [][MetaNext]_vars

s_subject == << "s", "u", "b", "j", "e", "c", "t" >>

\* the positions of the metadata-bearing columns whose cell is not blank
Bearing ==
  { i \in 1..Len(columns) :
      /\ ~is_blank(row_values[i])
      /\ StartsWith(Lower(base_header(columns[i])), s_dc_dot) }

\* (element, qualifier with "none" for an absent one, trimmed text) of column i
FieldTriple(i) ==
  LET d == parse_dc(base_header(columns[i]))
  IN  << d[1], IF d[2] = None THEN s_none ELSE d[2], Strip(row_values[i]) >>

NodeTriple(node) == << node[1], node[2], node[4] >>

\* the first column that yields the triple of a node
FirstColumn(node) == Least({ i \in Bearing : FieldTriple(i) = NodeTriple(node) })

\* C9: the field nodes of one metadata document are pairwise distinct as triples
\* (element, qualifier or "none", trimmed text); they are the triples of the
\* metadata-bearing columns with a non-blank cell, each once, in the column order of
\* their first occurrence (dc.subject and dc.subject.2 with the same text give one node).
C9_FieldNodesDeduplicated ==
  meta_pc = "done" =>
    /\ \A i, j \in 1..Len(dc_nodes) : i # j => NodeTriple(dc_nodes[i]) # NodeTriple(dc_nodes[j])
    /\ { NodeTriple(dc_nodes[i]) : i \in 1..Len(dc_nodes) } = { FieldTriple(i) : i \in Bearing }
    /\ \A i, j \in 1..Len(dc_nodes) : i < j => FirstColumn(dc_nodes[i]) < FirstColumn(dc_nodes[j])
    /\ \A i \in 1..Len(dc_nodes) : dc_nodes[i][3] = LANG_ATTR

\* C9 witness: dc.subject and dc.subject.2 hold the same text up to trimming and the
\* document has exactly one subject node
C9_Witness ==
  /\ meta_pc = "done"
  /\ \E i, j \in 1..Len(columns) :
       /\ columns[i] = << "d", "c", ".", "s", "u", "b", "j", "e", "c", "t" >>
       /\ columns[j] = << "d", "c", ".", "s", "u", "b", "j", "e", "c", "t", ".", "2" >>
       /\ row_values[i] = << "x" >>
       /\ row_values[j] = << "x", " " >>
  /\ Cardinality({ i \in 1..Len(dc_nodes) : dc_nodes[i][1] = s_subject }) = 1

\* a required specifier (element, and qualifier or None) is satisfied by the record
Satisfied(element, qualifier) ==
  \E i \in Bearing :
    /\ parse_dc(base_header(columns[i]))[1] = element
    /\ qualifier # None => parse_dc(base_header(columns[i]))[2] = qualifier

\* C10: validate_required_fields returns exactly the specifiers among title, creator,
\* date.issued (in that order) that no metadata-bearing column with a non-blank cell
\* satisfies; the spreadsheet is packaged all the same.
C10_RequiredFieldsReported ==
  meta_pc # "validate" =>
    missing = (IF Satisfied(s_title, None) THEN << >> ELSE << s_title >>)
              \o (IF Satisfied(s_creator, None) THEN << >> ELSE << s_creator >>)
              \o (IF Satisfied(s_date, s_issued) THEN << >> ELSE << s_date_issued >>)

\* C10 witness: title and creator present, a date without the qualifier issued:
\* exactly date.issued is reported and the document is written
C10_Witness ==
  /\ meta_pc = "done"
  /\ Satisfied(s_title, None)
  /\ Satisfied(s_creator, None)
  /\ Satisfied(s_date, None)
  /\ missing = << s_date_issued >>
  /\ Len(dc_nodes) = 3

(***************************************************************************)
(* validate_saf.py                                                         *)
(***************************************************************************)

Exists(files, item, name) == \E f \in files : f.pkg = item /\ f.name = name

TheFile(files, item, name) == CHOOSE f \in files : f.pkg = item /\ f.name = name

\* ET.parse(dc_path) succeeds
Parses(f) == f.kind = "xml"

\* found_fields[field] after the loop over root.findall("dcvalue")
FoundField(nodes, field) ==
  \E i \in 1..Len(nodes) :
    /\ Strip(nodes[i][4]) # << >>
    /\ \/ field = s_title /\ nodes[i][1] = s_title
       \/ field = s_creator /\ nodes[i][1] # s_title /\ nodes[i][1] = s_creator
       \/ /\ field = s_date_issued
          /\ nodes[i][1] \notin { s_title, s_creator }
          /\ nodes[i][1] = s_date
          /\ nodes[i][2] = s_issued

\* step 3: one warning per required field that was not found
RequiredIssues(nodes) ==
  LET absent == SelectSeq(REQUIRED_FIELDS, LAMBDA f : ~FoundField(nodes, f))
  IN  [ i \in 1..Len(absent) |-> << "missing required metadata", absent[i] >> ]

\* line.strip().split()[0], where it is defined
FirstToken(line) ==
  LET t == Strip(line)
      ws == { i \in 1..Len(t) : t[i] \in Whitespace }
  IN  IF ws = {} THEN t
      ELSE SubSeq(t, 1, (CHOOSE i \in ws : \A j \in ws : i <= j) - 1)

\* line.strip().split() is the empty list: indexing it raises IndexError
LineRaises(line) == Strip(line) = << >>

\* step 4 on an existing contents file whose lines all have a first token
ContentsIssues(files, item, lines) ==
  LET gone == SelectSeq(lines, LAMBDA l : ~Exists(files, item, FirstToken(l[1])))
  IN  [ i \in 1..Len(gone) |-> << "listed in contents but missing", FirstToken(gone[i][1]) >> ]

\* validate_item raises: it reaches step 4 and a line of contents has no token
validate_item_raises(files, item) ==
  /\ Exists(files, item, s_dublin_core_xml)
  /\ Parses(TheFile(files, item, s_dublin_core_xml))
  /\ Exists(files, item, s_contents)
  /\ \E i \in 1..Len(TheFile(files, item, s_contents).body) :
       LineRaises(TheFile(files, item, s_contents).body[i][1])

\* the issues validate_item collects when it returns
validate_item(files, item) ==
  IF ~Exists(files, item, s_dublin_core_xml) THEN << << "missing dublin_core.xml", << >> >> >>
  ELSE IF ~Parses(TheFile(files, item, s_dublin_core_xml)) THEN << << "invalid XML", << >> >> >>
  ELSE RequiredIssues(TheFile(files, item, s_dublin_core_xml).body) \o
       ( IF ~Exists(files, item, s_contents) THEN << << "missing contents file", << >> >> >>
         ELSE ContentsIssues(files, item, TheFile(files, item, s_contents).body) )

\* sorted(item_dirs)
RECURSIVE SortedSet(_)
SortedSet(S) ==
  IF S = {} THEN << >>
  ELSE LET least == CHOOSE x \in S : \A y \in S : ~StrLess(y, x)
       IN  << least >> \o SortedSet(S \ { least })

\* what a package directory may hold besides the bitstream a.jpg
DcUniverse ==
  { {},
    { [name |-> s_dublin_core_xml, kind |-> "garbage", body |-> << >>] },
    { [name |-> s_dublin_core_xml, kind |-> "xml", body |-> << << << "t", "i", "t", "l", "e" >>, << "n", "o", "n", "e" >>, LANG_ATTR, << "T" >> >> >>] },
    { [name |-> s_dublin_core_xml, kind |-> "xml",
       body |-> << << << "t", "i", "t", "l", "e" >>, << "n", "o", "n", "e" >>, LANG_ATTR, << "T" >> >>,
                   << << "c", "r", "e", "a", "t", "o", "r" >>, << "n", "o", "n", "e" >>, LANG_ATTR, << "c" >> >>,
                   << << "d", "a", "t", "e" >>, << "i", "s", "s", "u", "e", "d" >>, LANG_ATTR, << "1" >> >> >>] } }

ContentsUniverse ==
  { {},
    { [name |-> s_contents, kind |-> "contents", body |-> << >>] },
    { [name |-> s_contents, kind |-> "contents", body |-> << << << "a", ".", "j", "p", "g" >> >> >>] },
    { [name |-> s_contents, kind |-> "contents", body |-> << << << "z", "z" >> >> >>] },
    { [name |-> s_contents, kind |-> "contents",
       body |-> << << << "a", ".", "j", "p", "g", "\t", "b", ":", "X" >> >>, << << " " >> >> >>] } }

PackageUniverse ==
  { dc \cup co \cup { [name |-> << "a", ".", "j", "p", "g" >>, kind |-> "bitstream", body |-> << << << "a", ".", "j", "p", "g" >> >> >>] } :
      dc \in DcUniverse, co \in ContentsUniverse }

MaxPackages == 2

ValidatorInit ==
  /\ saf_dirs \in SUBSET { str(k) : k \in 1..MaxPackages }
  /\ \E content \in [saf_dirs -> PackageUniverse] :
       saf_files = UNION { { [pkg |-> d, name |-> f.name, kind |-> f.kind, body |-> f.body] :
                               f \in content[d] } : d \in saf_dirs }
  /\ v_next = 1
  /\ report = << >>
  /\ v_pc = "walk"

\* validate_item(item_dir, report) returns
ValidateItem ==
  /\ v_pc = "walk"
  /\ v_next <= Cardinality(saf_dirs)
  /\ ~validate_item_raises(saf_files, SortedSet(saf_dirs)[v_next])
  /\ report' = IF validate_item(saf_files, SortedSet(saf_dirs)[v_next]) # << >>
               THEN Append(report, << SortedSet(saf_dirs)[v_next],
                                      validate_item(saf_files, SortedSet(saf_dirs)[v_next]) >>)
               ELSE report
  /\ v_next' = v_next + 1
  /\ UNCHANGED << saf_dirs, saf_files, v_pc >>
  /\ UNCHANGED << pvars, hvars, mvars, cvars >>

\* validate_item raises IndexError; nothing in validate_item or main catches it
ValidateItemRaises ==
  /\ v_pc = "walk"
  /\ v_next <= Cardinality(saf_dirs)
  /\ validate_item_raises(saf_files, SortedSet(saf_dirs)[v_next])
  /\ v_pc' = "raised"
  /\ UNCHANGED << saf_dirs, saf_files, v_next, report >>
  /\ UNCHANGED << pvars, hvars, mvars, cvars >>

\* the walk is over: the report is printed
PrintReport ==
  /\ v_pc = "walk"
  /\ v_next > Cardinality(saf_dirs)
  /\ v_pc' = "done"
  /\ UNCHANGED << saf_dirs, saf_files, v_next, report >>
  /\ UNCHANGED << pvars, hvars, mvars, cvars >>

ValidatorNext == ValidateItem \/ ValidateItemRaises \/ PrintReport

InitValidator == ValidatorInit /\ PipelineIdle /\ HeaderIdle /\ MetaIdle /\ CleanIdle

SpecValidator == InitValidator /\ [][ValidatorNext]_vars

\* C4: no exception escapes the check of a single package, whatever the package
\* directory holds (a contents file with a blank line included): validate_item
\* returns, and the packages after it are still checked.
C4_NoExceptionEscapes ==
  /\ v_pc # "raised"
  /\ v_pc = "done" => v_next = Cardinality(saf_dirs) + 1

\* the packages the walk has been through: those validate_item returned from,
\* and the one it raised in
Walked ==
  { SortedSet(saf_dirs)[k] :
      k \in { j \in 1..Cardinality(saf_dirs) : j < v_next \/ (j = v_next /\ v_pc = "raised") } }

\* the report holds the issue for the package
Reported(item, issue) ==
  \E i \in 1..Len(report) :
    /\ report[i][1] = item
    /\ \E j \in 1..Len(report[i][2]) : report[i][2][j] = issue

\* the names the lines of the package's contents file list and the directory lacks
ListedButAbsent(item) ==
  IF ~Exists(saf_files, item, s_contents) THEN {}
  ELSE LET lines == TheFile(saf_files, item, s_contents).body
       IN  { FirstToken(lines[i][1]) :
               i \in { j \in 1..Len(lines) :
                         /\ ~LineRaises(lines[j][1])
                         /\ ~Exists(saf_files, item, FirstToken(lines[j][1])) } }

\* C11: for every package the validator walks, a package without a contents file
\* has a "missing contents file" issue in the report and every contents line
\* whose first token names no file of the package has a "listed in contents but
\* missing" issue, whether dublin_core.xml is absent, unparseable or valid.
C11_ManifestIssuesReported ==
  \A item \in Walked :
    /\ ~Exists(saf_files, item, s_contents) =>
         Reported(item, << "missing contents file", << >> >>)
    /\ \A name \in ListedButAbsent(item) :
         Reported(item, << "listed in contents but missing", name >>)

(***************************************************************************)
(* filename_utils.py: clean_filename                                       *)
(***************************************************************************)

\* characters outside ASCII are written by name: a precomposed accented letter,
\* the combining mark it decomposes to, and the typographic apostrophe
c_o_grave == "<o-grave>"
c_grave == "<combining-grave>"
c_rsquo == "<rsquo>"

\* unicodedata.normalize("NFD", name)
RECURSIVE NFD(_)
NFD(s) ==
  IF s = << >> THEN << >>
  ELSE (IF s[1] = c_o_grave THEN << "o", c_grave >> ELSE << s[1] >>) \o NFD(Tail(s))

\* "".join(ch for ch in name if unicodedata.category(ch) != "Mn")
RemoveMarks(s) == SelectSeq(s, LAMBDA ch : ch # c_grave)

\* name.replace(old, new) for a one-character old and new
Replace(s, old, new) == [ i \in 1..Len(s) |-> IF s[i] = old THEN new ELSE s[i] ]

\* the loop over REPLACEMENTS.items()
ApplyReplacements(s) ==
  Replace(Replace(Replace(Replace(s, c_rsquo, "-"), "'", "-"), "(", "_"), ")", "_")

\* [a-zA-Z0-9._-]
Allowed(ch) ==
  \/ \E i \in 1..26 : ch = UpperCase[i] \/ ch = LowerCase[i]
  \/ ch \in Digits
  \/ ch \in { ".", "_", "-" }

\* re.sub(r"[^a-zA-Z0-9._-]", "_", name)
ReplaceInvalid(s) == [ i \in 1..Len(s) |-> IF Allowed(s[i]) THEN s[i] ELSE "_" ]

\* re.sub(r"_+", "_", name) and re.sub(r"-+", "-", name): a run of ch becomes one ch
RECURSIVE Collapse(_, _)
Collapse(s, ch) ==
  IF Len(s) < 2 THEN s
  ELSE IF s[1] = ch /\ s[2] = ch THEN Collapse(Tail(s), ch)
  ELSE << s[1] >> \o Collapse(Tail(s), ch)

\* the length of the longest prefix of s made of underscores and hyphens
RECURSIVE RunLength(_)
RunLength(s) ==
  IF s # << >> /\ s[1] \in { "_", "-" } THEN 1 + RunLength(Tail(s)) ELSE 0

\* the removal written for underscores only: re.sub(r"_+(?=\.)", "", name)
RECURSIVE RemoveUnderscoresBeforeDot(_)
RemoveUnderscoresBeforeDot(s) ==
  IF s = << >> THEN << >>
  ELSE LET n == CHOOSE k \in 0..Len(s) :
                  /\ \A i \in 1..k : s[i] = "_"
                  /\ k = Len(s) \/ s[k + 1] # "_"
       IN  IF n = 0 THEN << s[1] >> \o RemoveUnderscoresBeforeDot(Tail(s))
           ELSE IF n < Len(s) /\ s[n + 1] = "."
                THEN RemoveUnderscoresBeforeDot(SubSeq(s, n + 1, Len(s)))
                ELSE SubSeq(s, 1, n) \o RemoveUnderscoresBeforeDot(SubSeq(s, n + 1, Len(s)))

\* re.sub(r"[_-]+(?=\.)", "", name): scanning from the left, a greedy run of
\* underscores and hyphens that a dot follows is removed
RECURSIVE RemoveBeforeDot(_)
RemoveBeforeDot(s) ==
  IF s = << >> THEN << >>
  ELSE LET n == RunLength(s)
       IN  IF n = 0 THEN << s[1] >> \o RemoveBeforeDot(Tail(s))
           ELSE IF n < Len(s) /\ s[n + 1] = "."
                THEN RemoveBeforeDot(SubSeq(s, n + 1, Len(s)))
                ELSE SubSeq(s, 1, n) \o RemoveBeforeDot(SubSeq(s, n + 1, Len(s)))

\* name.strip("_-")
RECURSIVE LStripEdge(_)
LStripEdge(s) == IF s # << >> /\ s[1] \in { "_", "-" } THEN LStripEdge(Tail(s)) ELSE s

RECURSIVE RStripEdge(_)
RStripEdge(s) ==
  IF s # << >> /\ s[Len(s)] \in { "_", "-" } THEN RStripEdge(SubSeq(s, 1, Len(s) - 1)) ELSE s

StripEdges(s) == RStripEdge(LStripEdge(s))

\* the second component of the pair clean_filename returns
clean_filename(name) ==
  LET decomposed == RemoveMarks(NFD(name))
      replaced == Replace(ApplyReplacements(decomposed), " ", "_")
      lowered == Lower(ReplaceInvalid(replaced))
      collapsed == Collapse(Collapse(lowered, "_"), "-")
  IN  StripEdges(RemoveBeforeDot(collapsed))

\* the characters names are drawn from: an uppercase and a lowercase letter, a
\* digit, the characters the last steps work on, and one character for each
\* way a character is replaced
NameAlphabet == { "D", "a", "1", ".", "_", "-", " ", "(", "!", c_rsquo, c_o_grave }

MaxNameLen == 4

\* the names test_filename_utils.py cleans
TestNames ==
  { [name |-> << "_", "_", "_", "D", "r", "a", "f", "t", "_", "_", "F", "i", "l", "e", "_", "_", "_", ".", "j", "p", "g" >>,
     cleaned |-> << "d", "r", "a", "f", "t", "_", "f", "i", "l", "e", ".", "j", "p", "g" >>],
    [name |-> << "_", "-", "W", "e", "i", "r", "d", "-", "N", "a", "m", "e", "-", "_", ".", "p", "n", "g" >>,
     cleaned |-> << "w", "e", "i", "r", "d", "-", "n", "a", "m", "e", ".", "p", "n", "g" >>],
    [name |-> << "M", "y", " ", "F", "i", "l", "e", " ", "N", "a", "m", "e", ".", "D", "O", "C", "X" >>,
     cleaned |-> << "m", "y", "_", "f", "i", "l", "e", "_", "n", "a", "m", "e", ".", "d", "o", "c", "x" >>],
    [name |-> << "R", "e", "p", "o", "r", "t", "(", "2", "0", "2", "3", ")", ".", "p", "d", "f" >>,
     cleaned |-> << "r", "e", "p", "o", "r", "t", "_", "2", "0", "2", "3", ".", "p", "d", "f" >>],
    [name |-> << "R", "o", "m", "e", c_rsquo, "s", "_", "F", "i", "l", "e", ".", "t", "x", "t" >>,
     cleaned |-> << "r", "o", "m", "e", "-", "s", "_", "f", "i", "l", "e", ".", "t", "x", "t" >>],
    [name |-> << "P", "i", c_o_grave, "_", "D", "e", "a", "d", "_", "C", "h", "r", "i", "s", "t", ".", "p", "d", "f" >>,
     cleaned |-> << "p", "i", "o", "_", "d", "e", "a", "d", "_", "c", "h", "r", "i", "s", "t", ".", "p", "d", "f" >>] }

CleanInit ==
  /\ original \in SeqsUpTo(NameAlphabet, MaxNameLen) \cup { t.name : t \in TestNames }
  /\ cleaned = << >>
  /\ clean_pc = "call"

\* original, cleaned = clean_filename(name)
CleanFilename ==
  /\ clean_pc = "call"
  /\ cleaned' = clean_filename(original)
  /\ clean_pc' = "returned"
  /\ UNCHANGED original
  /\ UNCHANGED << pvars, hvars, mvars, vvars >>

InitClean == CleanInit /\ PipelineIdle /\ HeaderIdle /\ MetaIdle /\ ValidatorIdle

SpecClean == InitClean /\ [][CleanFilename]_vars

s_draft_name == << "_", "_", "_", "D", "r", "a", "f", "t", "_", "_", "F", "i", "l", "e", "_", "_", "_", ".", "j", "p", "g" >>
s_draft_cleaned == << "d", "r", "a", "f", "t", "_", "f", "i", "l", "e", ".", "j", "p", "g" >>

\* C12: the name clean_filename returns holds only lowercase ASCII letters,
\* digits, dots, underscores and hyphens, has no two consecutive underscores and
\* no two consecutive hyphens, no underscore or hyphen directly before a dot,
\* and neither starts nor ends with an underscore or hyphen; the test names
\* are cleaned to the names the tests expect.
C12_CleanedNameShape ==
  clean_pc = "returned" =>
    /\ \A i \in 1..Len(cleaned) :
         \/ \E k \in 1..26 : cleaned[i] = LowerCase[k]
         \/ cleaned[i] \in Digits \cup { ".", "_", "-" }
    /\ \A i \in 1..(Len(cleaned) - 1) :
         /\ ~(cleaned[i] = "_" /\ cleaned[i + 1] = "_")
         /\ ~(cleaned[i] = "-" /\ cleaned[i + 1] = "-")
         /\ cleaned[i + 1] = "." => cleaned[i] \notin { "_", "-" }
    /\ cleaned # << >> => cleaned[1] \notin { "_", "-" } /\ cleaned[Len(cleaned)] \notin { "_", "-" }
    /\ \A t \in TestNames : original = t.name => cleaned = t.cleaned

\* a name with runs of underscores at both edges, inside and before the dot has been cleaned
C12_Witness ==
  /\ clean_pc = "returned"
  /\ original = s_draft_name
  /\ cleaned = s_draft_cleaned

\* C14: copying bitstreams leaves the metadata document alone: after a record is
\* processed without a record-level error, the dublin_core.xml of its package is
\* the document write_dc_xml emitted for the record, whatever the names of the
\* resolved bitstreams, a bitstream named dublin_core.xml included.
C14_CopyLeavesMetadataDocument ==
  RecordCompleted =>
    /\ HasFile(str(idx), s_dublin_core_xml)
    /\ FileOf(str(idx), s_dublin_core_xml).kind = "xml"
    /\ FileOf(str(idx), s_dublin_core_xml).body = write_dc_xml(DfColumns, df[idx])

\* C15: within one record no file of the bitstream directory is copied or counted
\* twice: found_files names each file once, the manifest lists each copied file on
\* one line, and total_files_copied is the number of files placed in the packages.
C15_EachFileCopiedOnce ==
  /\ pc = "copy" => Len(found_files) = Cardinality(Range(found_files))
  /\ RecordCompleted =>
       Len(ManifestNames(str(idx))) = Cardinality(Range(ManifestNames(str(idx))))
  /\ pc = "done" =>
       total_files_copied = Cardinality({ f \in out_files : f.kind = "bitstream" })

(***************************************************************************)
(* saf_converter.py followed by validate_saf.py on the directory it wrote  *)
(***************************************************************************)

s_a_b == << "a", " ", "b" >>

\* rows whose filename cells name a file with a space in its name and a file
\* named as the metadata document
PackagedRowUniverse ==
  { << << "T", "1" >>, << "c", "r" >>, << "2", "0", "0", "1" >>, << "a" >> >>,
    << << "T", "5" >>, << "c", "r" >>, NaN, s_a_b >>,
    << << "T", "6" >>, << "c", "r" >>, << "2", "0", "0", "1" >>,
       << "a", ".", "j", "p", "g", "|", "d", "u", "b", "l", "i", "n", "_", "c", "o", "r", "e", ".", "x", "m", "l" >> >> }

PackagedDirUniverse ==
  { [exists |-> FALSE, listing |-> << >>],
    [exists |-> TRUE, listing |-> << >>],
    [exists |-> TRUE, listing |-> << << "a", ".", "j", "p", "g" >> >>],
    [exists |-> TRUE, listing |-> << s_a_b >>],
    [exists |-> TRUE, listing |-> << << "a", ".", "j", "p", "g" >>, s_dublin_core_xml >>],
    [exists |-> TRUE, listing |-> << s_a_b, s_dublin_core_xml >>] }

\* python validate_saf.py <Config.OUTPUT_DIR> once the converter has finished
StartValidator ==
  /\ pc = "done"
  /\ v_pc = "idle"
  /\ saf_dirs' = out_dirs
  /\ saf_files' = out_files
  /\ v_next' = 1
  /\ report' = << >>
  /\ v_pc' = "walk"
  /\ UNCHANGED << pvars, hvars, mvars, cvars >>

InitEndToEnd ==
  /\ PipelineStart(PackagedRowUniverse, PackagedDirUniverse)
  /\ HeaderIdle /\ MetaIdle /\ ValidatorIdle /\ CleanIdle

\* the packages the converter writes give validate_item no line to raise on (a
\* manifest line is a copied name, never blank), so its raising step is not
\* among the steps of this run
EndToEndNext == PipelineNext \/ StartValidator \/ ValidateItem \/ PrintReport

SpecEndToEnd == InitEndToEnd /\ [][EndToEndNext]_vars

\* the issues the report holds for a package
IssuesOf(item) ==
  UNION { Range(report[i][2]) : i \in { k \in 1..Len(report) : report[k][1] = item } }

\* C13: writer and validator agree: for every record the pipeline processed without
\* a record-level error into an empty output directory, validate_saf.py does not
\* raise on its package and reports no failing issue for it, whatever the copied
\* filenames (names with whitespace included); only missing-required-metadata
\* warnings may be reported.
C13_WriterValidatorAgree ==
  /\ (v_pc = "walk" /\ v_next <= Cardinality(saf_dirs)) =>
       ~validate_item_raises(saf_files, SortedSet(saf_dirs)[v_next])
  /\ \A k \in 1..idx :
       (~Failed(k) /\ str(k) \in Walked) =>
         \A issue \in IssuesOf(str(k)) : issue[1] = "missing required metadata"

====
